---- MODULE Spec2Model ----
(***************************************************************************)
(* The racing demo's per-frame simulation core (src/racing/src/main.rs):  *)
(* the App state, the on_event and update callbacks, and the vehicle       *)
(* assembly built by load_car.                                             *)
(*                                                                         *)
(* Every number of App is an f32.  An f32 is modelled bit-exactly as a     *)
(* record [sg, ex, mn] of value (-1)^sg * mn * 2^ex, with the IEEE-754     *)
(* binary32 layout (24-bit significand, minimum exponent -149) and         *)
(* round-to-nearest-even in every operation.  Infinities and NaN are not   *)
(* modelled: no value of the program leaves the range [-64, 64] within     *)
(* the bounds below.                                                       *)
(***************************************************************************)
EXTENDS Integers, Sequences, FiniteSets, TLC

(***************************************************************************)
(* Bounds of the model.                                                    *)
(***************************************************************************)
\* frames run by specification Spec (every key, every interleaving); events after
\* the last frame are not explored
MaxTicks == 3
\* frames run by specification SpecHold (the throttle key alone)
MaxHoldTicks == 285

(***************************************************************************)
(* f32 arithmetic.                                                         *)
(***************************************************************************)
F32(sg, ex, mn) == [sg |-> sg, ex |-> ex, mn |-> mn]

Pow2(n) == 2 ^ n

\* number of significant bits of n, 0 <= n < 2^30: the k with 2^(k-1) <= n < 2^k,
\* found by bisection
BitLen(n) ==
    IF n >= 16384
    THEN IF n >= 4194304
         THEN IF n >= 67108864
              THEN IF n >= 268435456
                   THEN IF n >= 536870912
                        THEN 30
                        ELSE 29
                   ELSE IF n >= 134217728
                        THEN 28
                        ELSE 27
              ELSE IF n >= 16777216
                   THEN IF n >= 33554432
                        THEN 26
                        ELSE 25
                   ELSE IF n >= 8388608
                        THEN 24
                        ELSE 23
         ELSE IF n >= 262144
              THEN IF n >= 1048576
                   THEN IF n >= 2097152
                        THEN 22
                        ELSE 21
                   ELSE IF n >= 524288
                        THEN 20
                        ELSE 19
              ELSE IF n >= 65536
                   THEN IF n >= 131072
                        THEN 18
                        ELSE 17
                   ELSE IF n >= 32768
                        THEN 16
                        ELSE 15
    ELSE IF n >= 64
         THEN IF n >= 1024
              THEN IF n >= 4096
                   THEN IF n >= 8192
                        THEN 14
                        ELSE 13
                   ELSE IF n >= 2048
                        THEN 12
                        ELSE 11
              ELSE IF n >= 256
                   THEN IF n >= 512
                        THEN 10
                        ELSE 9
                   ELSE IF n >= 128
                        THEN 8
                        ELSE 7
         ELSE IF n >= 4
              THEN IF n >= 16
                   THEN IF n >= 32
                        THEN 6
                        ELSE 5
                   ELSE IF n >= 8
                        THEN 4
                        ELSE 3
              ELSE IF n >= 1
                   THEN IF n >= 2
                        THEN 2
                        ELSE 1
                   ELSE 0

MaxOf(a, b) == IF a < b THEN b ELSE a

\* the f32 nearest to s * 2^e (ties to even), 0 <= s < 2^30, with sign sg
RoundPack(sg, s, e) ==
    IF s = 0 THEN F32(sg, -149, 0)
    ELSE LET n  == BitLen(s)
             et == MaxOf(e + n - 24, -149)
             sh == et - e
             q0 == IF sh <= 0 THEN s * Pow2(-sh) ELSE s \div Pow2(sh)
             r  == IF sh <= 0 THEN 0 ELSE s % Pow2(sh)
             hf == IF sh <= 0 THEN 1 ELSE Pow2(sh - 1)
             q  == IF r > hf \/ (r = hf /\ q0 % 2 = 1) THEN q0 + 1 ELSE q0
         IN  IF sh > 30 THEN F32(sg, -149, 0)
             ELSE IF q = Pow2(24) THEN F32(sg, et + 1, Pow2(23))
             ELSE F32(sg, et, q)

\* m shifted right by k bits, the bits shifted out OR-ed into the last bit
ShrSticky(m, k) ==
    IF k >= 30 THEN (IF m # 0 THEN 1 ELSE 0)
    ELSE LET q == m \div Pow2(k)
         IN  IF m % Pow2(k) # 0 /\ q % 2 = 0 THEN q + 1 ELSE q

MagLess(a, b) == a.ex < b.ex \/ (a.ex = b.ex /\ a.mn < b.mn)

\* a + b
fadd(a, b) ==
    LET hi == IF MagLess(a, b) THEN b ELSE a
        lo == IF MagLess(a, b) THEN a ELSE b
        d  == hi.ex - lo.ex
        A  == hi.mn * 8
        B  == IF d <= 3 THEN lo.mn * Pow2(3 - d) ELSE ShrSticky(lo.mn, d - 3)
    IN  IF lo.mn = 0
        THEN (IF hi.mn = 0 THEN F32(IF a.sg = 1 /\ b.sg = 1 THEN 1 ELSE 0, -149, 0) ELSE hi)
        ELSE IF hi.sg = lo.sg THEN RoundPack(hi.sg, A + B, hi.ex - 3)
        ELSE IF A = B THEN F32(0, -149, 0)
        ELSE RoundPack(hi.sg, A - B, hi.ex - 3)

\* -a
fneg(a) == F32(1 - a.sg, a.ex, a.mn)

\* a - b
fsub(a, b) == fadd(a, fneg(b))

\* a * b: the 48-bit product of the significands in two 24-bit limbs
fmul(a, b) ==
    LET sg  == (a.sg + b.sg) % 2
        a1  == a.mn \div 4096
        a0  == a.mn % 4096
        b1  == b.mn \div 4096
        b0  == b.mn % 4096
        mid == a1 * b0 + a0 * b1
        low == (mid % 4096) * 4096 + a0 * b0
        hi  == a1 * b1 + mid \div 4096 + low \div Pow2(24)
        lo  == low % Pow2(24)
        nh  == BitLen(hi)
        dr  == MaxOf(0, nh - 5)
        top == hi * Pow2(24 - dr) + lo \div Pow2(dr)
        st  == IF lo % Pow2(dr) # 0 THEN 1 ELSE 0
    IN  IF hi = 0 THEN RoundPack(sg, lo, a.ex + b.ex)
        ELSE RoundPack(sg, top * 2 + st, a.ex + b.ex + dr - 1)

\* a < b
flt(a, b) ==
    IF a.mn = 0 /\ b.mn = 0 THEN FALSE
    ELSE IF a.sg # b.sg THEN a.sg = 1
    ELSE IF a.sg = 0 THEN MagLess(a, b)
    ELSE MagLess(b, a)

\* a == b (the two zeros are equal)
feq(a, b) == (a.mn = 0 /\ b.mn = 0) \/ a = b

\* a <= b
fle(a, b) == flt(a, b) \/ feq(a, b)

\* f32::max
fmax(a, b) == IF flt(a, b) THEN b ELSE a

(***************************************************************************)
(* Literals of the source, as the f32 nearest to each decimal.             *)
(***************************************************************************)
Zero == F32(0, -149, 0)
One == F32(0, -23, 8388608)
Two == F32(0, -22, 8388608)

\* const ACC: f32 = 0.05
ACC == F32(0, -28, 13421773)
\* const DECEL: f32 = 0.07
DECEL == F32(0, -27, 9395241)
\* const STEER: f32 = 0.02
STEER == F32(0, -29, 10737418)
\* const MAX: f32 = 0.23
MAX == F32(0, -26, 15435039)
\* const RESIST: f32 = 0.02
RESIST == F32(0, -29, 10737418)
\* the lerp factor 0.06
LerpFactor == F32(0, -28, 16106127)
\* Vec4::new(-6.8, 0.0, 17.0, 1.0)
StartPositon == <<F32(1, -21, 14260634), Zero, F32(0, -19, 8912896), One>>

(***************************************************************************)
(* f32::sin and f32::cos at the headings the model reaches: the multiples  *)
(* of STEER accumulated by update, each result the f32 nearest to the      *)
(* exact value; sin is odd and cos is even.                                *)
(***************************************************************************)
TrigTable ==
    { [h |-> F32(0, -149, 0), sin |-> F32(0, -149, 0), cos |-> F32(0, -23, 8388608)],
      [h |-> F32(0, -29, 10737418), sin |-> F32(0, -29, 10736702), cos |-> F32(0, -24, 16773861)],
      [h |-> F32(0, -28, 10737418), sin |-> F32(0, -28, 10734555), cos |-> F32(0, -24, 16763796)],
      [h |-> F32(0, -28, 16106127), sin |-> F32(0, -28, 16096465), cos |-> F32(0, -24, 16747026)],
      [h |-> F32(0, -27, 10737418), sin |-> F32(0, -27, 10725968), cos |-> F32(0, -24, 16723558)],
      [h |-> F32(0, -27, 13421772), sin |-> F32(0, -27, 13399414), cos |-> F32(0, -24, 16693400)],
      [h |-> F32(0, -27, 16106126), sin |-> F32(0, -27, 16067499), cos |-> F32(0, -24, 16656565)] }

TrigRow(a) == CHOOSE r \in TrigTable : r.h.ex = a.ex /\ r.h.mn = a.mn

sin(a) == IF a.sg = 1 THEN fneg(TrigRow(a).sin) ELSE TrigRow(a).sin

cos(a) == TrigRow(a).cos

(***************************************************************************)
(* Vectors and matrices.  A Mat4 is kept as the arguments of the glam      *)
(* constructors that built it: Mat4::from_translation(t) *                 *)
(* Mat4::from_rotation_y(r) as [translation, rotation_y], and              *)
(* Mat4::look_at_rh(eye, center, Vec3::Y) as [eye, center].                *)
(***************************************************************************)
xyz(v) == <<v[1], v[2], v[3]>>

\* Vec4 + Vec4, Vec3 + Vec3
vadd(u, v) == [i \in DOMAIN u |-> fadd(u[i], v[i])]

\* Vec3 - Vec3
vsub(u, v) == [i \in DOMAIN u |-> fsub(u[i], v[i])]

\* Vec3 * f32
vscale(u, k) == [i \in DOMAIN u |-> fmul(u[i], k)]

\* Mat4::from_translation(t) * Mat4::from_rotation_y(r)
TransRot(t, r) == [translation |-> t, rotation_y |-> r]

\* Mat4::from_translation(t)
Translation(t) == TransRot(t, Zero)

\* the transform of a node nothing has updated
Identity == Translation(<<Zero, Zero, Zero>>)

\* Mat4::look_at_rh(eye, center, Vec3::Y)
look_at_rh(eye, center) == [eye |-> eye, center |-> center]

\* Vec3::lerp(self, rhs, s) = self + (rhs - self) * s
lerp(self, rhs, s) == vadd(self, vscale(vsub(rhs, self), s))

(***************************************************************************)
(* The scene graph built by init: load_track's five meshes, then load_car. *)
(***************************************************************************)
Wheels == {"wheel_0", "wheel_1", "wheel_2", "wheel_3"}

Scenery == {"track", "advertisment", "billboard_base", "ground", "billboard_sign"}

NodeIds == Scenery \cup {"car"} \cup Wheels

\* the four wheel offsets of load_car
WheelOffset(w) ==
    CASE w = "wheel_0" -> <<F32(0, -24, 9856933), F32(0, -25, 10074987), F32(1, -23, 9092496)>>
      [] w = "wheel_1" -> <<F32(1, -24, 9856933), F32(0, -25, 10074987), F32(1, -23, 9092496)>>
      [] w = "wheel_2" -> <<F32(0, -24, 10125721), F32(0, -25, 10066095), F32(0, -23, 11403558)>>
      [] w = "wheel_3" -> <<F32(1, -24, 10125721), F32(0, -25, 10066095), F32(0, -23, 11403558)>>

load_track == [n \in Scenery |-> [local |-> Identity, parent |-> "none"]]

load_car ==
    [n \in {"car"} \cup Wheels |->
        IF n = "car" THEN [local |-> Identity, parent |-> "none"]
        ELSE [local |-> Translation(WheelOffset(n)), parent |-> "car"]]

(***************************************************************************)
(* State.                                                                  *)
(***************************************************************************)
VARIABLES
    speed, rotation, positon, cam_position,  \* App's vehicle and camera state
    gas, brake, left, right,                  \* App's input flags
    nodes,          \* the scene graph: node -> [local transform, parent]
    camera,         \* ctx.camera
    lock_poisoned,  \* the car node's RwLock is poisoned
    status,         \* "running", or "panicked" once update has panicked
    ticks,          \* update calls so far
    seen,           \* history: the last press/release delivered for each mapped key
    last            \* history: App and the car node as the last update call found them

vars == <<speed, rotation, positon, cam_position, gas, brake, left, right,
          nodes, camera, lock_poisoned, status, ticks, seen, last>>

MappedKeys == {"W", "S", "A", "D"}

Snapshot ==
    [speed |-> speed, rotation |-> rotation, positon |-> positon,
     cam_position |-> cam_position, gas |-> gas, brake |-> brake,
     left |-> left, right |-> right, car |-> nodes["car"].local,
     camera |-> camera, lock_poisoned |-> lock_poisoned]

\* App::init
Init ==
    /\ speed = Zero
    /\ rotation = Zero
    /\ positon = StartPositon
    /\ cam_position = <<Zero, Zero, Zero>>
    /\ gas = FALSE /\ brake = FALSE /\ left = FALSE /\ right = FALSE
    /\ nodes = [n \in NodeIds |-> IF n \in Scenery THEN load_track[n] ELSE load_car[n]]
    /\ camera = look_at_rh(<<Zero, F32(0, -20, 10485760), F32(0, -19, 10485760)>>,
                           <<Zero, Zero, Zero>>)
    /\ lock_poisoned = FALSE
    /\ status = "running"
    /\ ticks = 0
    /\ seen = [k \in MappedKeys |-> FALSE]
    /\ last = [speed |-> Zero, rotation |-> Zero, positon |-> StartPositon,
               cam_position |-> <<Zero, Zero, Zero>>, gas |-> FALSE, brake |-> FALSE,
               left |-> FALSE, right |-> FALSE, car |-> Identity,
               camera |-> look_at_rh(<<Zero, F32(0, -20, 10485760), F32(0, -19, 10485760)>>,
                                     <<Zero, Zero, Zero>>),
               lock_poisoned |-> FALSE]

(***************************************************************************)
(* App::on_event                                                           *)
(***************************************************************************)
KeyCodes == {"W", "S", "A", "D", "Q", "None"}

Events ==
    [kind : {"KeyboardInput"}, virtual_keycode : KeyCodes, state : {"Pressed", "Released"}]
      \cup {[kind |-> "CursorMoved", virtual_keycode |-> "None", state |-> "Released"]}

\* input.virtual_keycode.unwrap_or(VirtualKeyCode::Kanji)
unwrap_or_Kanji(code) == IF code = "None" THEN "Kanji" ELSE code

\* mutant of KeyFlag: the arms of W and S assign each other's flag
KeyFlagSwapped(k) ==
    CASE k = "W" -> "brake"
      [] k = "S" -> "gas"
      [] k = "A" -> "left"
      [] k = "D" -> "right"
      [] OTHER -> "none"

\* the flag the match arm of key k assigns, or "none"
KeyFlag(k) ==
    CASE k = "W" -> "gas"
      [] k = "S" -> "brake"
      [] k = "A" -> "left"
      [] k = "D" -> "right"
      [] OTHER -> "none"

on_event(ev) ==
    LET key     == IF ev.kind = "KeyboardInput" THEN unwrap_or_Kanji(ev.virtual_keycode)
                   ELSE "Kanji"
        flag    == IF ev.kind = "KeyboardInput" THEN KeyFlag(key) ELSE "none"
        pressed == ev.state = "Pressed"
    IN  /\ status = "running"
        /\ gas'   = IF flag = "gas" THEN pressed ELSE gas
        /\ brake' = IF flag = "brake" THEN pressed ELSE brake
        /\ left'  = IF flag = "left" THEN pressed ELSE left
        /\ right' = IF flag = "right" THEN pressed ELSE right
        /\ seen'  = IF ev.kind = "KeyboardInput" /\ ev.virtual_keycode \in MappedKeys
                    THEN [seen EXCEPT ![ev.virtual_keycode] = (ev.state = "Pressed")]
                    ELSE seen
        /\ UNCHANGED <<speed, rotation, positon, cam_position, nodes, camera,
                       lock_poisoned, status, ticks, last>>

(***************************************************************************)
(* App::update                                                             *)
(***************************************************************************)
\* mutant of Throttle: the throttle adds MAX * ACC, not (MAX - speed) * ACC
ThrottleOvershoot(s, g) ==
    IF g THEN fadd(s, fmul(MAX, ACC))
    ELSE fsub(s, fmul(s, RESIST))

\* mutant of Throttle: rolling resistance adds speed * RESIST
ThrottleResistAdds(s, g) ==
    IF g THEN fadd(s, fmul(fsub(MAX, s), ACC))
    ELSE fadd(s, fmul(s, RESIST))

\* lines 112-117: throttle, or rolling resistance
Throttle(s, g) ==
    IF g THEN fadd(s, fmul(fsub(MAX, s), ACC))
    ELSE fsub(s, fmul(s, RESIST))

\* lines 118-120: the brake
Brake(s, b) == IF b THEN fsub(s, fmul(s, DECEL)) ELSE s

\* mutant of NewSpeed: the brake takes DECEL off the speed and nothing clamps it
NewSpeedUnclamped(s, g, b) ==
    IF b THEN fsub(Throttle(s, g), DECEL) ELSE Throttle(s, g)

\* mutant of NewSpeed: the brake replaces the throttle and rolling-resistance term
NewSpeedBrakeInstead(s, g, b) ==
    fmax(IF b THEN fsub(s, fmul(s, DECEL)) ELSE Throttle(s, g), Zero)

\* lines 112-122: the speed after the tick
NewSpeed(s, g, b) == fmax(Brake(Throttle(s, g), b), Zero)

\* mutant of Steer: right is looked at only when left is clear
SteerLeftWins(l, r) ==
    IF l THEN One ELSE IF r THEN fneg(One) ELSE Zero

\* lines 125-131
Steer(l, r) ==
    LET s0 == Zero
        s1 == IF l THEN fadd(s0, One) ELSE s0
    IN  IF r THEN fsub(s1, One) ELSE s1

\* line 141
NewRotation(rot, l, r) == fadd(rot, fmul(Steer(l, r), STEER))

\* mutant of Velocity: the velocity is scaled by a frame time of 1/60 s
VelocityPerSecond(rot, s) ==
    <<fmul(fmul(sin(rot), s), F32(0, -29, 8947849)), Zero,
      fmul(fmul(cos(rot), s), F32(0, -29, 8947849)), Zero>>

\* lines 143-148
Velocity(rot, s) == <<fmul(sin(rot), s), Zero, fmul(cos(rot), s), Zero>>

\* line 150
NewPositon(pos, rot, s) == vadd(pos, Velocity(rot, s))

\* lines 152-154: Mat4::from_translation(p) * Mat4::from_rotation_y(-rot) applied to
\* (0, 0, 0, 1) is the matrix's translation column, p itself with w = 1
LocalPosition(pos, rot) == <<pos[1], pos[2], pos[3], One>>

\* line 159
CarTransform(pos, rot) == TransRot(xyz(LocalPosition(pos, rot)), rot)

\* line 164
Eye(pos, rot) ==
    vadd(xyz(pos), <<fmul(sin(rot), fneg(Two)), Two, fmul(cos(rot), fneg(Two))>>)

\* mutant of NewCam: the lerp runs from the desired eye towards the old one
NewCamSwapped(cam, pos, rot) == lerp(Eye(pos, rot), cam, LerpFactor)

\* line 166
NewCam(cam, pos, rot) == lerp(cam, Eye(pos, rot), LerpFactor)

\* mutant of WriteCar: the transform also lands on the first wheel's node
WriteAssembly(m) ==
    nodes' = [nodes EXCEPT !["car"].local = m, !["wheel_0"].local = m]

\* line 158, the lock acquired: Transform::update on the car's node alone
WriteCar(m) == nodes' = [nodes EXCEPT !["car"].local = m]

\* mutant of OnLockError: the failed write is skipped and update carries on
OnLockErrorSkipped ==
    /\ status' = "running"
    /\ cam_position' = NewCam(cam_position, positon', rotation')
    /\ camera' = look_at_rh(cam_position', xyz(positon'))
    /\ UNCHANGED nodes

\* line 158, write() returned Err: unwrap panics and update unwinds
OnLockError ==
    /\ status' = "panicked"
    /\ UNCHANGED <<nodes, cam_position, camera>>

Tick(limit) ==
    /\ status = "running"
    /\ ticks < limit
    /\ ticks' = ticks + 1
    /\ last' = Snapshot
    /\ speed' = NewSpeed(speed, gas, brake)
    /\ rotation' = NewRotation(rotation, left, right)
    /\ positon' = NewPositon(positon, rotation', speed')
    /\ IF lock_poisoned
       THEN OnLockError
       ELSE /\ WriteCar(CarTransform(positon', rotation'))
            /\ cam_position' = NewCam(cam_position, positon', rotation')
            /\ camera' = look_at_rh(cam_position', xyz(positon'))
            /\ status' = "running"
    /\ UNCHANGED <<gas, brake, left, right, lock_poisoned, seen>>

(***************************************************************************)
(* The car node's lock becomes poisoned: a writer of the shared Transform  *)
(* outside App panicked while holding it.                                  *)
(***************************************************************************)
PoisonLock ==
    /\ status = "running"
    /\ ticks < MaxTicks
    /\ ~lock_poisoned
    /\ lock_poisoned' = TRUE
    /\ UNCHANGED <<speed, rotation, positon, cam_position, gas, brake, left, right,
                   nodes, camera, status, ticks, seen, last>>

(***************************************************************************)
(* Spec: every event and every interleaving, up to the MaxTicks-th frame.   *)
(***************************************************************************)
OnEvent == ticks < MaxTicks /\ \E ev \in Events : on_event(ev)

Update == Tick(MaxTicks)

Next == OnEvent \/ Update \/ PoisonLock

Spec == Init /\ [][Next]_vars

(***************************************************************************)
(* SpecHold: the driver presses the throttle key at some frame and holds   *)
(* it, up to the MaxHoldTicks-th frame.                                    *)
(***************************************************************************)
ThrottleDown == [kind |-> "KeyboardInput", virtual_keycode |-> "W", state |-> "Pressed"]

OnThrottle == ticks < MaxHoldTicks /\ on_event(ThrottleDown)

UpdateHold == Tick(MaxHoldTicks)

NextHold == OnThrottle \/ UpdateHold

SpecHold == Init /\ [][NextHold]_vars

(***************************************************************************)
(* Vocabulary of the properties.                                           *)
(***************************************************************************)
\* the position of a non-negative f32 among the non-negative f32s
Ord(a) == (a.ex + 149) * Pow2(23) + a.mn

\* how many f32s apart two non-negative f32s are
UlpsApart(a, b) == IF Ord(a) < Ord(b) THEN Ord(b) - Ord(a) ELSE Ord(a) - Ord(b)

fabs(a) == F32(0, a.ex, a.mn)

\* the last update call returned (it did not panic)
Returned == ticks > 0 /\ ~last.lock_poisoned

\* C1: after every update, whatever the gas and brake flags, speed >= 0.
C1_SpeedNonNegative ==
    /\ fle(Zero, speed)
    /\ \A g \in BOOLEAN, b \in BOOLEAN : fle(Zero, NewSpeed(speed, g, b))

C1_Witness ==
    /\ ticks > 0 /\ last.brake /\ ~last.gas
    /\ flt(Zero, last.speed) /\ flt(speed, last.speed)

\* C2 as stated: an update with accelerate set and brake clear, from a speed s with
\* 0 <= s < MAX, leaves the speed strictly greater than s and strictly below MAX.
C2_StrictlyIncreases ==
    (ticks > 0 /\ last.gas /\ ~last.brake /\ fle(Zero, last.speed) /\ flt(last.speed, MAX))
        => (flt(last.speed, speed) /\ flt(speed, MAX))

\* MAX less ten units in the last place: 0.23 - 10 * 2^-26
StallBand == F32(0, -26, 15435029)

\* C2 amended: such an update never lowers the speed and leaves it strictly below
\* MAX; the speed grows strictly exactly when s is at least 10 f32 units in the last
\* place below MAX, and closer to MAX than that the f32 sum rounds back to s.
C2_IncreasesUntilStall ==
    (ticks > 0 /\ last.gas /\ ~last.brake /\ fle(Zero, last.speed) /\ flt(last.speed, MAX))
        => /\ fle(last.speed, speed)
           /\ flt(speed, MAX)
           /\ flt(last.speed, speed) <=> fle(last.speed, StallBand)

C2_Witness ==
    /\ ticks > 0 /\ last.gas /\ ~last.brake
    /\ flt(StallBand, last.speed) /\ flt(last.speed, MAX)
    /\ speed = last.speed

\* C3: an update with accelerate and brake both clear leaves speed - speed * 0.02:
\* never more than before, never negative, and 0 stays 0; 0.1 becomes 0.098 (to the
\* nearest f32 or its neighbour).
C3_RollingResistance ==
    /\ (ticks > 0 /\ ~last.gas /\ ~last.brake)
          => /\ speed = fsub(last.speed, fmul(last.speed, F32(0, -29, 10737418)))
             /\ fle(speed, last.speed)
             /\ fle(Zero, speed)
             /\ (last.speed.mn = 0 => speed = Zero)
    /\ UlpsApart(NewSpeed(F32(0, -27, 13421773), FALSE, FALSE), F32(0, -27, 13153337)) <= 1

C3_Witness ==
    /\ ticks > 0 /\ ~last.gas /\ ~last.brake
    /\ flt(Zero, last.speed) /\ flt(speed, last.speed)

\* C4: every update adds STEER times the net steer to the heading: +0.02 for left
\* alone, -0.02 for right alone, nothing for both or neither, whatever the speed and
\* the gas and brake flags.
C4_Heading ==
    ticks > 0 =>
        /\ (last.left /\ ~last.right) => rotation = fadd(last.rotation, F32(0, -29, 10737418))
        /\ (last.right /\ ~last.left) => rotation = fadd(last.rotation, F32(1, -29, 10737418))
        /\ (last.left <=> last.right) => rotation = last.rotation
        /\ (last.rotation = Zero /\ last.left /\ ~last.right) => rotation = F32(0, -29, 10737418)
        /\ (last.rotation = Zero /\ last.right /\ ~last.left) => rotation = F32(1, -29, 10737418)

C4_Witness ==
    /\ ticks > 1 /\ last.left /\ last.right /\ last.gas
    /\ rotation = last.rotation /\ rotation.mn # 0 /\ flt(Zero, speed)

\* the flags on_event should leave after event ev
FlagsAfter(ev) ==
    LET mapped == ev.kind = "KeyboardInput" /\ ev.virtual_keycode \in MappedKeys
        down   == ev.state = "Pressed"
    IN  /\ gas'   = IF mapped /\ ev.virtual_keycode = "W" THEN down ELSE gas
        /\ brake' = IF mapped /\ ev.virtual_keycode = "S" THEN down ELSE brake
        /\ left'  = IF mapped /\ ev.virtual_keycode = "A" THEN down ELSE left
        /\ right' = IF mapped /\ ev.virtual_keycode = "D" THEN down ELSE right

\* C5: on_event sets exactly the flag of W, S, A or D (true on press, false on
\* release), changes no flag for any other event, and never touches speed, heading,
\* position or camera eye; so each flag is the last press/release seen for its key.
C5_Flags ==
    /\ [](/\ gas = seen["W"] /\ brake = seen["S"]
          /\ left = seen["A"] /\ right = seen["D"])
    /\ [][\A ev \in Events :
            on_event(ev) => /\ FlagsAfter(ev)
                            /\ UNCHANGED <<speed, rotation, positon, cam_position>>]_vars

C5_Witness ==
    /\ gas /\ ~brake /\ left /\ ~right
    /\ seen["W"] /\ seen["A"] /\ ticks > 0

\* C6: update writes the car body's node alone: every wheel keeps its construction
\* offset and its parent link, so a wheel's world pose is the body's current pose
\* composed with that offset.
WorldPose(n) ==
    IF nodes[n].parent = "none" THEN <<nodes[n].local>>
    ELSE <<nodes[nodes[n].parent].local, nodes[n].local>>

C6_WheelsFixed ==
    /\ \A w \in Wheels : nodes[w] = [local |-> Translation(WheelOffset(w)), parent |-> "car"]
    /\ \A n \in Scenery : nodes[n] = [local |-> Identity, parent |-> "none"]
    /\ nodes["car"].parent = "none"
    /\ (status = "running" /\ ticks > 0) =>
          \A w \in Wheels :
              WorldPose(w) = <<TransRot(xyz(positon), rotation), Translation(WheelOffset(w))>>

C6_Witness ==
    /\ ticks > 1 /\ status = "running"
    /\ nodes["car"].local # Identity
    /\ nodes["car"].local.rotation_y.mn # 0
    /\ nodes["car"].local.translation # xyz(StartPositon)

\* C7: an update that finds the car node's lock poisoned panics: it never returns
\* having skipped the transform write, and no frame runs after it; while the app
\* runs, the car node and the camera follow the vehicle state.
C7_LockFailureFatal ==
    /\ []((ticks > 0 /\ last.lock_poisoned) => status = "panicked")
    /\ []((ticks > 0 /\ status = "running") =>
             /\ nodes["car"].local = TransRot(xyz(positon), rotation)
             /\ camera = look_at_rh(cam_position, xyz(positon)))
    /\ [][status # "panicked"]_vars

C7_Witness ==
    /\ ticks > 1 /\ last.lock_poisoned /\ status = "panicked"
    /\ nodes["car"].local # TransRot(xyz(positon), rotation)

\* the eye update aims at, from the position and heading the tick has just written
Desired ==
    <<fadd(positon[1], fmul(sin(rotation), F32(1, -22, 8388608))),
      fadd(positon[2], F32(0, -22, 8388608)),
      fadd(positon[3], fmul(cos(rotation), F32(1, -22, 8388608)))>>

\* 2^-9: the error above which the ratio of C8 is checked
RatioFloor == F32(0, -32, 8388608)

\* C8: each update moves the eye by 0.06 of the way to the desired eye: eye =
\* previous + 0.06 * (desired - previous); per axis the distance to the desired eye
\* shrinks by a factor of about 0.94 (between 0.93 and 0.95 while it is above 2^-9),
\* never grows, and the eye never lands on the desired eye unless it was there.
C8_CameraLerp ==
    Returned =>
        \A i \in 1..3 :
            LET old == fabs(fsub(Desired[i], last.cam_position[i]))
                new == fabs(fsub(Desired[i], cam_position[i]))
            IN  /\ cam_position[i] =
                     fadd(last.cam_position[i],
                          fmul(fsub(Desired[i], last.cam_position[i]), F32(0, -28, 16106127)))
                /\ fle(new, old)
                /\ ~feq(last.cam_position[i], Desired[i]) => ~feq(cam_position[i], Desired[i])
                /\ fle(RatioFloor, old) =>
                      /\ fle(fmul(old, F32(0, -24, 15602811)), new)
                      /\ fle(new, fmul(old, F32(0, -24, 15938355)))

C8_Witness ==
    /\ ticks > 200 /\ Returned /\ last.gas
    /\ \A i \in 1..3 : ~feq(cam_position[i], Desired[i])
    /\ flt(fabs(fsub(Desired[3], cam_position[3])), fabs(fsub(Desired[3], last.cam_position[3])))

\* C9: the brake acts on top of the throttle or rolling-resistance term of the same
\* update: with x that term's result, the new speed is max(0, x - x * DECEL), which
\* is x * (1 - DECEL) to within one f32 unit in the last place.
C9_BrakeStacks ==
    (ticks > 0 /\ last.brake) =>
        LET s == last.speed
            x == IF last.gas
                 THEN fadd(s, fmul(fsub(F32(0, -26, 15435039), s), F32(0, -28, 13421773)))
                 ELSE fsub(s, fmul(s, F32(0, -29, 10737418)))
            y == fsub(x, fmul(x, F32(0, -27, 9395241)))
        IN  /\ speed = (IF flt(y, Zero) THEN Zero ELSE y)
            /\ UlpsApart(speed, fmul(x, fsub(One, F32(0, -27, 9395241)))) <= 1

C9_Witness ==
    /\ ticks > 1 /\ last.brake /\ last.gas
    /\ flt(Zero, last.speed) /\ flt(Zero, speed)

\* C10: update integrates the position last, with the speed and heading it has just
\* computed and no delta-time factor: position' = position + (sin(heading') * speed',
\* 0, cos(heading') * speed'), y and w unchanged; from init, one tick with accelerate
\* alone gives speed 0.0115 and position (-6.8, 0, 17.0115).
C10_Integration ==
    /\ ticks > 0 =>
          /\ positon[1] = fadd(last.positon[1], fmul(sin(rotation), speed))
          /\ positon[2] = last.positon[2]
          /\ positon[3] = fadd(last.positon[3], fmul(cos(rotation), speed))
          /\ positon[4] = One
    /\ (ticks = 1 /\ last.gas /\ ~last.brake /\ ~last.left /\ ~last.right) =>
          /\ speed = F32(0, -30, 12348031)
          /\ positon = <<F32(1, -21, 14260634), Zero, F32(0, -19, 8918925), One>>

C10_Witness ==
    /\ ticks > 1
    /\ speed # last.speed /\ rotation # last.rotation /\ rotation.mn # 0
    /\ positon[1] # last.positon[1] /\ positon[3] # last.positon[3]

====
